---- MODULE Spec2Model ----
\* A model of src/index.js: the token document (tokens.json), the OAuth login /
\* callback handlers, GET /users, GET /likes/:userId and the liked-posts poller.
\* Every handler is an async function: it runs atomically from one await to the
\* next, so each action below is "an awaited call completes and the handler runs
\* up to its next await".  The pc of a task names the call that is in flight.
\*
\* The calls to the platform and to the file system are the environment: each
\* either succeeds or fails, as the try/catch blocks of the source provide for.
\* A write of tokens.json that succeeds replaces the whole text at once, so a
\* reader never sees a partly written document.  Tokens are numbered in the
\* order the platform issues them; time advances in steps of one second.
EXTENDS Integers, Sequences, FiniteSets, TLC

\* ---------------------------------------------------------------- bounds
MaxTicks == 1       \* the clock advances at most this many times
MaxIssued == 3      \* token pairs the platform issues (logins + refreshes)
MaxOps == 2         \* requests and poller cycles started in one run

\* ---------------------------------------------------------------- constants
MsPerSec == 1000    \* expiresIn is in seconds, Date.now() in milliseconds

Users == {"u1", "u2"}          \* the platform's user ids (user.data.id)
Sessions == {"s1"}             \* express-session sessions
Tasks == {1, 2}                \* concurrently running handlers / poller cycles
ExpiresInValues == {1}         \* expires_in values the platform answers with
Undefined == "undefined"       \* JavaScript undefined (absent query / session field)

\* The order in which line 144 creates the keys of a record; the spreads of
\* lines 190 and 258 keep it, and JSON.stringify writes keys in that order.
KeyOrder ==
  <<"accessToken", "refreshToken", "expiresIn", "userId", "username", "name", "createdAt">>

VARIABLES
  file,        \* tokens.json: [exists, data]; data is the JSON text of the document
  now,         \* Date.now(), in milliseconds
  issued,      \* number of token pairs the platform has issued so far
  submitted,   \* refresh tokens (by number) that were sent to the refresh exchange
  session,     \* session[s] = req.session.codeVerifier of session s
  ops,         \* operations started so far
  task         \* task[t]: the local state of the handler running in slot t

vars == <<file, now, issued, submitted, session, ops, task>>

\* ---------------------------------------------------------------- values
AccessTokenOf(n) == <<"at", n>>
RefreshTokenOf(n) == <<"rt", n>>
TokNum(tok) == tok[2]
UsernameOf(u) == <<"username", u>>
NameOf(u) == <<"name", u>>

\* A call a task made: op is the call, idx the index of the record it is about
\* (0: none), tok the number of the token it carried, st its outcome.
Call(op, idx, tok) == [op |-> op, idx |-> idx, tok |-> tok, st |-> "pending"]

SetLast(log, st) == [log EXCEPT ![Len(log)].st = st]

Idle ==
  [kind |-> "idle", pc |-> "idle", tokens |-> <<>>, i |-> 0, userId |-> "",
   accessToken |-> AccessTokenOf(0), grant |-> <<>>, log |-> <<>>,
   status |-> "", body |-> <<>>,
   sess |-> "", code |-> Undefined, codeVerifier |-> Undefined]

\* ---------------------------------------------------------------- token store
\* Mutant: expiresIn is written in milliseconds (converted on save, not on load).
StringifyRecordMillis(r) ==
  [k \in 1..Len(KeyOrder) |->
     <<KeyOrder[k],
       IF KeyOrder[k] = "expiresIn" THEN r.expiresIn * MsPerSec ELSE r[KeyOrder[k]]>>]

\* JSON.stringify(tokens, null, 2): an array of objects, each a list of
\* key/value pairs in key order.
StringifyRecord(r) == [k \in 1..Len(KeyOrder) |-> <<KeyOrder[k], r[KeyOrder[k]]>>]

Stringify(tokens) == [n \in 1..Len(tokens) |-> StringifyRecord(tokens[n])]

\* JSON.parse(data): each object becomes a record, looked up by key.
ParseRecord(obj) ==
  [f \in {obj[k][1] : k \in 1..Len(obj)} |->
     obj[CHOOSE k \in 1..Len(obj) : obj[k][1] = f][2]]

Parse(data) == [n \in 1..Len(data) |-> ParseRecord(data[n])]

EmptyArrayText == <<>>     \* the literal '[]' of line 64

NoFile == [exists |-> FALSE, data |-> <<>>]

TextFile(data) == [exists |-> TRUE, data |-> data]

\* What loadTokens returns when nothing interferes and no I/O fails.
Load(f) == IF f.exists THEN Parse(f.data) ELSE <<>>

\* ---------------------------------------------------------------- expiry
\* Mutant: a token is still good at the very millisecond it expires.
IsExpiredStrict(user, t) == t > user.createdAt + user.expiresIn * MsPerSec

IsExpired(user, t) == t >= user.createdAt + user.expiresIn * MsPerSec

\* ---------------------------------------------------------------- responses
Respond(l, status, body) == [l EXCEPT !.pc = "done", !.status = status, !.body = body]

\* ---------------------------------------------------------------- poller loop
\* One pass of the for loop up to its first await: the loop test, the expiry
\* decision, and the refresh or the liked-posts request it issues.
PollerIter(l, i, t) ==
  IF i > Len(l.tokens)
  THEN Respond(l, "returned", <<>>)
  ELSE LET user == l.tokens[i] IN
       IF IsExpired(user, t)
       THEN [l EXCEPT !.i = i, !.accessToken = user.accessToken, !.pc = "refresh",
                      !.log = Append(@, Call("refresh", i, TokNum(user.refreshToken)))]
       ELSE [l EXCEPT !.i = i, !.accessToken = user.accessToken, !.pc = "fetch",
                      !.log = Append(@, Call("fetch", i, TokNum(user.accessToken)))]

\* ---------------------------------------------------------------- after loadTokens
IndexOf(tokens, userId) ==
  IF \E k \in 1..Len(tokens) : tokens[k].userId = userId
  THEN CHOOSE k \in 1..Len(tokens) :
         /\ tokens[k].userId = userId
         /\ \A j \in 1..(k - 1) : tokens[j].userId # userId
  ELSE 0

NewRecord(l, t) ==
  [accessToken |-> l.grant[1].accessToken, refreshToken |-> l.grant[1].refreshToken,
   expiresIn |-> l.grant[1].expiresIn, userId |-> l.userId,
   username |-> UsernameOf(l.userId), name |-> NameOf(l.userId), createdAt |-> t]

\* Mutant: the callback pushes the record without looking for the userId.
CallbackAfterLoadNoDedup(l, tokens, t) ==
  [l EXCEPT !.tokens = Append(tokens, NewRecord(l, t)), !.pc = "save",
            !.log = Append(@, Call("save", Len(tokens) + 1,
                                   TokNum(l.grant[1].refreshToken)))]

CallbackAfterLoad(l, tokens, t) ==
  IF ~ \E k \in 1..Len(tokens) : tokens[k].userId = l.userId
  THEN [l EXCEPT !.tokens = Append(tokens, NewRecord(l, t)), !.pc = "save",
                 !.log = Append(@, Call("save", Len(tokens) + 1,
                                        TokNum(l.grant[1].refreshToken)))]
  ELSE Respond([l EXCEPT !.tokens = tokens], "302", <<>>)

\* Mutant: /users answers with the stored records themselves, tokens included.
UsersAfterLoadLeaksTokens(l, tokens) ==
  Respond([l EXCEPT !.tokens = tokens], "200", tokens)

UsersAfterLoad(l, tokens) ==
  Respond([l EXCEPT !.tokens = tokens], "200",
          [n \in 1..Len(tokens) |->
             [userId |-> tokens[n].userId, username |-> tokens[n].username,
              name |-> tokens[n].name]])

\* Mutant: /likes refreshes whether or not the token has expired.
LikesAfterLoadAlwaysRefresh(l, tokens, t) ==
  LET i == IndexOf(tokens, l.userId) IN
  IF i = 0
  THEN Respond([l EXCEPT !.tokens = tokens], "404", <<>>)
  ELSE [l EXCEPT !.tokens = tokens, !.i = i, !.accessToken = tokens[i].accessToken,
                 !.pc = "refresh",
                 !.log = Append(@, Call("refresh", i, TokNum(tokens[i].refreshToken)))]

LikesAfterLoad(l, tokens, t) ==
  LET i == IndexOf(tokens, l.userId) IN
  IF i = 0
  THEN Respond([l EXCEPT !.tokens = tokens], "404", <<>>)
  ELSE LET user == tokens[i] IN
       IF IsExpired(user, t)
       THEN [l EXCEPT !.tokens = tokens, !.i = i, !.accessToken = user.accessToken,
                      !.pc = "refresh",
                      !.log = Append(@, Call("refresh", i, TokNum(user.refreshToken)))]
       ELSE [l EXCEPT !.tokens = tokens, !.i = i, !.accessToken = user.accessToken,
                      !.pc = "fetch",
                      !.log = Append(@, Call("fetch", i, TokNum(user.accessToken)))]

PollerAfterLoad(l, tokens, t) ==
  IF Len(tokens) = 0
  THEN Respond([l EXCEPT !.tokens = tokens], "returned", <<>>)
  ELSE PollerIter([l EXCEPT !.tokens = tokens], 1, t)

AfterLoad(l, tokens, t) ==
  CASE l.kind = "callback" -> CallbackAfterLoad(l, tokens, t)
    [] l.kind = "users" -> UsersAfterLoad(l, tokens)
    [] l.kind = "likes" -> LikesAfterLoad(l, tokens, t)
    [] l.kind = "poller" -> PollerAfterLoad(l, tokens, t)

\* loadTokens rejects (the writeFile of line 64 failed inside the catch block):
\* /auth/callback and /users catch it and answer 500; /likes and the poller
\* await loadTokens outside any try, so the rejection is unhandled.
LoadRejected(l) ==
  IF l.kind \in {"callback", "users"}
  THEN Respond(l, "500", <<>>)
  ELSE Respond(l, "unhandled", <<>>)

\* ---------------------------------------------------------------- initial state
\* The process starts with no tokens.json, or with the one an earlier run left:
\* what the first callback of u1, or of u1 and then of u2, writes at time 0.
FirstRecord(u, n) ==
  [accessToken |-> AccessTokenOf(n), refreshToken |-> RefreshTokenOf(n),
   expiresIn |-> 1, userId |-> u, username |-> UsernameOf(u), name |-> NameOf(u),
   createdAt |-> 0]

StoredAtStart ==
  {NoFile,
   TextFile(Stringify(<<FirstRecord("u1", 1)>>)),
   TextFile(Stringify(<<FirstRecord("u1", 1), FirstRecord("u2", 2)>>))}

Init ==
  /\ file \in StoredAtStart
  /\ now = 0
  /\ issued = Len(file.data)
  /\ submitted = {}
  /\ session = [s \in Sessions |-> Undefined]
  /\ ops = 0
  /\ task = [t \in Tasks |-> Idle]

\* ---------------------------------------------------------------- environment
\* Sending the response (or returning) ends the handler in the same synchronous
\* run, so nothing else happens while a task is at "done".
NoneDone == \A t \in Tasks : task[t].pc # "done"

Tick ==
  /\ NoneDone
  /\ now < MaxTicks * MsPerSec
  /\ now' = now + MsPerSec
  /\ UNCHANGED <<file, issued, submitted, session, ops, task>>

\* A new operation takes the lowest free slot.
FreeSlot(t) ==
  /\ NoneDone
  /\ ops < MaxOps
  /\ task[t].kind = "idle"
  /\ \A t2 \in Tasks : t2 < t => task[t2].kind # "idle"

\* ---------------------------------------------------------------- GET /auth/login
Login(s) ==
  /\ NoneDone
  /\ session' = [session EXCEPT ![s] = "verifier"]
  /\ UNCHANGED <<file, now, issued, submitted, ops, task>>

\* ---------------------------------------------------------------- GET /auth/callback
\* Mutant: only the code is looked at before the exchange.
CallbackBeginNoVerifierCheck(l) ==
  IF l.code = Undefined
  THEN Respond(l, "500", <<>>)
  ELSE [l EXCEPT !.pc = "exchange", !.log = <<Call("exchange", 0, 0)>>]

\* Lines 124-137: the code of the query and the codeVerifier of the session;
\* without either the handler throws and answers 500, else it calls the exchange.
CallbackBegin(l) ==
  IF l.code = Undefined \/ l.codeVerifier = Undefined
  THEN Respond(l, "500", <<>>)
  ELSE [l EXCEPT !.pc = "exchange", !.log = <<Call("exchange", 0, 0)>>]

StartCallback(t, s, code) ==
  /\ FreeSlot(t)
  /\ ops' = ops + 1
  /\ task' = [task EXCEPT ![t] =
       CallbackBegin([Idle EXCEPT !.kind = "callback", !.sess = s, !.code = code,
                                  !.codeVerifier = session[s]])]
  /\ UNCHANGED <<file, now, issued, submitted, session>>

\* client.loginWithOAuth2 answers with a new token pair, or throws.
ExchangeDone(t) ==
  /\ NoneDone
  /\ task[t].pc = "exchange"
  /\ \/ /\ issued < MaxIssued
        /\ \E e \in ExpiresInValues :
             task' = [task EXCEPT ![t] =
               [task[t] EXCEPT !.pc = "me", !.log = SetLast(@, "ok"),
                  !.grant = <<[accessToken |-> AccessTokenOf(issued + 1),
                               refreshToken |-> RefreshTokenOf(issued + 1),
                               expiresIn |-> e]>>]]
        /\ issued' = issued + 1
     \/ /\ task' = [task EXCEPT ![t] =
             Respond([task[t] EXCEPT !.log = SetLast(@, "fail")], "500", <<>>)]
        /\ UNCHANGED issued
  /\ UNCHANGED <<file, now, submitted, session, ops>>

\* userClient.v2.me answers with the user, or throws; then loadTokens is called.
MeDone(t) ==
  /\ NoneDone
  /\ task[t].pc = "me"
  /\ \/ \E u \in Users :
          task' = [task EXCEPT ![t] = [task[t] EXCEPT !.userId = u, !.pc = "read"]]
     \/ task' = [task EXCEPT ![t] = Respond(task[t], "500", <<>>)]
  /\ UNCHANGED <<file, now, issued, submitted, session, ops>>

\* ---------------------------------------------------------------- GET /users
StartUsers(t) ==
  /\ FreeSlot(t)
  /\ ops' = ops + 1
  /\ task' = [task EXCEPT ![t] = [Idle EXCEPT !.kind = "users", !.pc = "read"]]
  /\ UNCHANGED <<file, now, issued, submitted, session>>

\* ---------------------------------------------------------------- GET /likes/:userId
StartLikes(t, u) ==
  /\ FreeSlot(t)
  /\ ops' = ops + 1
  /\ task' = [task EXCEPT ![t] =
       [Idle EXCEPT !.kind = "likes", !.pc = "read", !.userId = u]]
  /\ UNCHANGED <<file, now, issued, submitted, session>>

\* ---------------------------------------------------------------- the poller
StartPoller(t) ==
  /\ FreeSlot(t)
  /\ ops' = ops + 1
  /\ task' = [task EXCEPT ![t] = [Idle EXCEPT !.kind = "poller", !.pc = "read"]]
  /\ UNCHANGED <<file, now, issued, submitted, session>>

\* ---------------------------------------------------------------- loadTokens
\* fs.readFile completes: with the text, with ENOENT, or with another error.
ReadFileDone(t) ==
  /\ NoneDone
  /\ task[t].pc = "read"
  /\ \/ /\ file.exists
        /\ task' = [task EXCEPT ![t] = AfterLoad(task[t], Parse(file.data), now)]
     \/ /\ ~ file.exists
        /\ task' = [task EXCEPT ![t] =
             [task[t] EXCEPT !.pc = "mkfile", !.log = Append(@, Call("mkfile", 0, 0))]]
     \/ /\ task' = [task EXCEPT ![t] = AfterLoad(task[t], <<>>, now)]
  /\ UNCHANGED <<file, now, issued, submitted, session, ops>>

\* The fs.writeFile(TOKEN_FILE, '[]') of the ENOENT branch completes.
MkFileDone(t) ==
  /\ NoneDone
  /\ task[t].pc = "mkfile"
  /\ \/ /\ file' = TextFile(EmptyArrayText)
        /\ task' = [task EXCEPT ![t] =
             AfterLoad([task[t] EXCEPT !.log = SetLast(@, "ok")], <<>>, now)]
     \/ /\ task' = [task EXCEPT ![t] =
             LoadRejected([task[t] EXCEPT !.log = SetLast(@, "fail")])]
        /\ UNCHANGED file
  /\ UNCHANGED <<now, issued, submitted, session, ops>>

\* ---------------------------------------------------------------- saveTokens
\* What the caller does once saveTokens has resolved (it never rejects).
AfterSave(l) ==
  IF l.kind = "callback"
  THEN Respond(l, "302", <<>>)
  ELSE [l EXCEPT !.pc = "fetch",
                 !.log = Append(@, Call("fetch", l.i, TokNum(l.accessToken)))]

SaveDone(t) ==
  /\ NoneDone
  /\ task[t].pc = "save"
  /\ \/ /\ file' = TextFile(Stringify(task[t].tokens))
        /\ task' = [task EXCEPT ![t] = AfterSave([task[t] EXCEPT !.log = SetLast(@, "ok")])]
     \/ /\ task' = [task EXCEPT ![t] = AfterSave([task[t] EXCEPT !.log = SetLast(@, "fail")])]
        /\ UNCHANGED file
  /\ UNCHANGED <<now, issued, submitted, session, ops>>

\* ---------------------------------------------------------------- refreshAccessToken
\* The record of lines 190-196 and 258-264: the spread of user with the new
\* tokens and a new createdAt.
\* Mutant: the refreshed record keeps the refresh token it had.
RefreshedKeepsRefreshToken(user, n, e, t) ==
  [user EXCEPT !.accessToken = AccessTokenOf(n), !.expiresIn = e, !.createdAt = t]

\* Mutant: the refreshed record also gets a new name.
RefreshedRenames(user, n, e, t) ==
  [user EXCEPT !.accessToken = AccessTokenOf(n), !.refreshToken = RefreshTokenOf(n),
               !.expiresIn = e, !.createdAt = t, !.name = user.username]

Refreshed(user, n, e, t) ==
  [user EXCEPT !.accessToken = AccessTokenOf(n), !.refreshToken = RefreshTokenOf(n),
               !.expiresIn = e, !.createdAt = t]

\* Mutant: the refreshed record replaces the whole sequence.
RefreshOkDropsOthers(l, n, e, t) ==
  [l EXCEPT !.accessToken = AccessTokenOf(n),
            !.tokens = <<Refreshed(l.tokens[l.i], n, e, t)>>,
            !.pc = "save",
            !.log = Append(SetLast(@, "ok"), Call("save", l.i, n))]

RefreshOk(l, n, e, t) ==
  [l EXCEPT !.accessToken = AccessTokenOf(n),
            !.tokens = [l.tokens EXCEPT ![l.i] = Refreshed(l.tokens[l.i], n, e, t)],
            !.pc = "save",
            !.log = Append(SetLast(@, "ok"), Call("save", l.i, n))]

\* Mutant: the poller returns (instead of continue) when a refresh fails.
RefreshFailedAborts(l, t) ==
  IF l.kind = "likes"
  THEN Respond([l EXCEPT !.log = SetLast(@, "fail")], "401", <<>>)
  ELSE Respond([l EXCEPT !.log = SetLast(@, "fail")], "returned", <<>>)

\* Mutant: /likes forgets to return and fetches with the expired access token.
RefreshFailedFallsThrough(l, t) ==
  IF l.kind = "likes"
  THEN [l EXCEPT !.pc = "fetch",
                 !.log = Append(SetLast(@, "fail"),
                                Call("fetch", l.i, TokNum(l.accessToken)))]
  ELSE PollerIter([l EXCEPT !.log = SetLast(@, "fail")], l.i + 1, t)

\* Mutant: the poller tries the same record again when its refresh fails.
RefreshFailedRetries(l, t) ==
  IF l.kind = "likes"
  THEN Respond([l EXCEPT !.log = SetLast(@, "fail")], "401", <<>>)
  ELSE PollerIter([l EXCEPT !.log = SetLast(@, "fail")], l.i, t)

\* Mutant: refreshAccessToken lets the error of the exchange through.
RefreshFailedThrows(l, t) ==
  IF l.kind = "likes"
  THEN Respond([l EXCEPT !.log = SetLast(@, "fail")], "500", <<>>)
  ELSE Respond([l EXCEPT !.log = SetLast(@, "fail")], "unhandled", <<>>)

RefreshFailed(l, t) ==
  IF l.kind = "likes"
  THEN Respond([l EXCEPT !.log = SetLast(@, "fail")], "401", <<>>)
  ELSE PollerIter([l EXCEPT !.log = SetLast(@, "fail")], l.i + 1, t)

RefreshDone(t) ==
  /\ NoneDone
  /\ task[t].pc = "refresh"
  /\ submitted' = submitted \cup {task[t].log[Len(task[t].log)].tok}
  /\ \/ /\ issued < MaxIssued
        /\ \E e \in ExpiresInValues :
             task' = [task EXCEPT ![t] = RefreshOk(task[t], issued + 1, e, now)]
        /\ issued' = issued + 1
     \/ /\ task' = [task EXCEPT ![t] = RefreshFailed(task[t], now)]
        /\ UNCHANGED issued
  /\ UNCHANGED <<file, now, session, ops>>

\* ---------------------------------------------------------------- liked posts
\* Mutant: the poller's liked-posts request is not inside a try block.
FetchOutcomeThrows(l, ok, t) ==
  LET m == [l EXCEPT !.log = SetLast(@, IF ok THEN "ok" ELSE "fail")] IN
  IF l.kind = "likes"
  THEN Respond(m, IF ok THEN "200" ELSE "500", <<>>)
  ELSE IF ok THEN PollerIter(m, l.i + 1, t) ELSE Respond(m, "unhandled", <<>>)

\* Mutant: the poller asks once more for the liked posts of a user when the
\* request fails.
FetchOutcomeRetriesOnce(l, ok, t) ==
  LET m == [l EXCEPT !.log = SetLast(@, IF ok THEN "ok" ELSE "fail")] IN
  IF l.kind = "likes"
  THEN Respond(m, IF ok THEN "200" ELSE "500", <<>>)
  ELSE IF ok \/ Cardinality({k \in 1..Len(l.log) :
                               l.log[k].op = "fetch" /\ l.log[k].idx = l.i}) > 1
       THEN PollerIter(m, l.i + 1, t)
       ELSE [m EXCEPT !.log = Append(@, Call("fetch", l.i, TokNum(l.accessToken)))]

FetchOutcome(l, ok, t) ==
  LET m == [l EXCEPT !.log = SetLast(@, IF ok THEN "ok" ELSE "fail")] IN
  IF l.kind = "likes"
  THEN Respond(m, IF ok THEN "200" ELSE "500", <<>>)
  ELSE PollerIter(m, l.i + 1, t)

FetchDone(t) ==
  /\ NoneDone
  /\ task[t].pc = "fetch"
  /\ \E ok \in BOOLEAN : task' = [task EXCEPT ![t] = FetchOutcome(task[t], ok, now)]
  /\ UNCHANGED <<file, now, issued, submitted, session, ops>>

\* The response has been sent (or the cycle has returned); the slot is free again.
Finish(t) ==
  /\ task[t].pc = "done"
  /\ task' = [task EXCEPT ![t] = Idle]
  /\ UNCHANGED <<file, now, issued, submitted, session, ops>>

\* ---------------------------------------------------------------- specification
Next ==
  \/ Tick
  \/ \E s \in Sessions : Login(s)
  \/ \E t \in Tasks, s \in Sessions, code \in {Undefined, "code"} : StartCallback(t, s, code)
  \/ \E t \in Tasks : ExchangeDone(t)
  \/ \E t \in Tasks : MeDone(t)
  \/ \E t \in Tasks : StartUsers(t)
  \/ \E t \in Tasks, u \in Users : StartLikes(t, u)
  \/ \E t \in Tasks : StartPoller(t)
  \/ \E t \in Tasks : ReadFileDone(t)
  \/ \E t \in Tasks : MkFileDone(t)
  \/ \E t \in Tasks : SaveDone(t)
  \/ \E t \in Tasks : RefreshDone(t)
  \/ \E t \in Tasks : FetchDone(t)
  \/ \E t \in Tasks : Finish(t)

Spec == Init /\ [][Next]_vars

\* ---------------------------------------------------------------- properties
\* An awaited call of operation t completes (or its response is sent): the
\* platform and the file system answer every call, with a result or an error.
TaskStep(t) ==
  \/ ExchangeDone(t)
  \/ MeDone(t)
  \/ ReadFileDone(t)
  \/ MkFileDone(t)
  \/ SaveDone(t)
  \/ RefreshDone(t)
  \/ FetchDone(t)
  \/ Finish(t)

FairSpec == Spec /\ \A t \in Tasks : WF_vars(TaskStep(t))

HasRecord(f, u) == \E k \in 1..Len(Load(f)) : Load(f)[k].userId = u

UserIds(tokens) == [k \in 1..Len(tokens) |-> tokens[k].userId]

IsPrefix(a, b) == Len(a) <= Len(b) /\ \A k \in 1..Len(a) : a[k] = b[k]

Made(l, ops_, idx) == \E k \in 1..Len(l.log) : l.log[k].op \in ops_ /\ l.log[k].idx = idx

Attempted(l, idx) == Made(l, {"refresh", "fetch"}, idx)

LastCall(l) == l.log[Len(l.log)]

\* C1: in every reachable state of the persisted document no two records share a
\* userId, whatever callbacks, /likes requests and poller cycles interleave.
NoDuplicateUserIds ==
  LET ids == UserIds(Load(file)) IN
  \A a, b \in 1..Len(ids) : ids[a] = ids[b] => a = b

\* C1 witness: a callback for a user who already has a record has answered
\* without pushing or saving, and the document holds both users.
DedupWitness ==
  \E t \in Tasks :
    /\ task[t].kind = "callback" /\ task[t].pc = "done" /\ task[t].status = "302"
    /\ ~ \E k \in 1..Len(task[t].log) : task[t].log[k].op = "save"
    /\ HasRecord(file, task[t].userId)
    /\ Len(Load(file)) = 2

\* C2 as stated: once the persisted document holds a record for a userId, every
\* later state of the document holds one.
RecordNeverDeleted ==
  [][\A u \in Users : HasRecord(file, u) => HasRecord(file', u)]_vars

\* C2 amended: no operation drops a record from the sequence its load returned:
\* from then on the sequence keeps every userId at its position (it only grows,
\* or has a record replaced by one of the same userId), and the document that
\* saveTokens writes is that sequence.
SnapshotKeepsRecords ==
  [][\A t \in Tasks :
       /\ (/\ task[t].pc \in {"save", "refresh", "fetch"}
           /\ task'[t].kind = task[t].kind)
          => IsPrefix(UserIds(task[t].tokens), UserIds(task'[t].tokens))
       /\ (/\ task[t].pc = "save"
           /\ task'[t] # task[t]
           /\ file' # file)
          => /\ file'.exists
             /\ UserIds(Load(file')) = UserIds(task[t].tokens)]_vars

\* C2 witness: a refresh of one of two loaded records has been saved, and the
\* document holds both users.
SnapshotWitness ==
  \E t \in Tasks :
    /\ task[t].kind \in {"likes", "poller"}
    /\ Len(task[t].tokens) = 2
    /\ \E k \in 1..Len(task[t].log) : task[t].log[k].op = "save" /\ task[t].log[k].st = "ok"
    /\ UserIds(Load(file)) = UserIds(task[t].tokens)

\* C3: in a poller cycle, a user whose refresh failed is skipped (no liked-posts
\* request and no save is made for that record, which stays as loaded), the loop
\* moves on, and at the end of the cycle every other loaded record was attempted.
PollerSkipsFailedRefresh ==
  \A t \in Tasks :
    task[t].kind = "poller" =>
      \A k \in 1..Len(task[t].log) :
        (task[t].log[k].op = "refresh" /\ task[t].log[k].st = "fail") =>
          LET x == task[t].log[k].idx IN
          /\ ~ Made(task[t], {"fetch", "save"}, x)
          /\ TokNum(task[t].tokens[x].refreshToken) = task[t].log[k].tok
          /\ task[t].pc # "done" => task[t].i > x
          /\ task[t].pc = "done" =>
               /\ task[t].status = "returned"
               /\ \A j \in 1..Len(task[t].tokens) : j # x => Attempted(task[t], j)

\* C3 witness: a finished cycle over two records in which the refresh of the
\* first failed and the second was attempted.
SkipWitness ==
  \E t \in Tasks :
    /\ task[t].kind = "poller" /\ task[t].pc = "done"
    /\ Len(task[t].tokens) = 2
    /\ task[t].log[1].op = "refresh" /\ task[t].log[1].st = "fail"
    /\ Attempted(task[t], 2)

\* C4: in a poller cycle, a failed liked-posts request stays with its user: the
\* loop moves on, every later loaded record is attempted, and the cycle returns
\* without an error.
PollerIsolatesFetchError ==
  \A t \in Tasks :
    task[t].kind = "poller" =>
      \A k \in 1..Len(task[t].log) :
        (task[t].log[k].op = "fetch" /\ task[t].log[k].st = "fail") =>
          LET x == task[t].log[k].idx IN
          /\ task[t].pc # "done" => task[t].i > x
          /\ task[t].pc = "done" =>
               /\ task[t].status = "returned"
               /\ \A j \in (x + 1)..Len(task[t].tokens) : Attempted(task[t], j)

\* C4 witness: a finished cycle over two records whose first liked-posts
\* request failed.
FetchErrorWitness ==
  \E t \in Tasks :
    /\ task[t].kind = "poller" /\ task[t].pc = "done" /\ task[t].status = "returned"
    /\ Len(task[t].tokens) = 2
    /\ \E k \in 1..Len(task[t].log) :
         task[t].log[k].op = "fetch" /\ task[t].log[k].idx = 1 /\ task[t].log[k].st = "fail"
    /\ Attempted(task[t], 2)

\* C5: when /likes finds the record expired and the refresh fails, the answer is
\* 401, no liked-posts request is made, and the request writes nothing: the
\* document is the same after the step, and no write is among its calls.
LikesRefreshFailure ==
  [][\A t \in Tasks :
       (/\ task[t].kind = "likes" /\ task[t].pc = "refresh"
        /\ task'[t] # task[t]
        /\ task'[t].log[Len(task[t].log)].st = "fail")
       => /\ task'[t].pc = "done" /\ task'[t].status = "401"
          /\ \A k \in 1..Len(task'[t].log) :
               task'[t].log[k].op \notin {"fetch", "save", "mkfile"}
          /\ task'[t].tokens = task[t].tokens
          /\ file' = file]_vars

\* C5 witness: /likes has answered 401 and the document still holds the record
\* with the refresh token that was submitted.
LikesRefreshFailureWitness ==
  \E t \in Tasks :
    /\ task[t].kind = "likes" /\ task[t].pc = "done" /\ task[t].status = "401"
    /\ \E k \in 1..Len(Load(file)) :
         /\ Load(file)[k].userId = task[t].userId
         /\ TokNum(Load(file)[k].refreshToken) = task[t].log[1].tok

\* C6: when /likes finds the record not expired, its first and only call is the
\* liked-posts request with the stored access token: no refresh is submitted
\* and the document is not written by the request.
LikesFreshFetchesDirectly ==
  [][\A t \in Tasks :
       (task[t].kind = "likes" /\ task'[t] # task[t]) =>
         /\ (/\ task[t].pc = "read"
             /\ task'[t].i # 0
             /\ now < task'[t].tokens[task'[t].i].createdAt
                        + task'[t].tokens[task'[t].i].expiresIn * 1000)
            => /\ task'[t].pc = "fetch"
               /\ task'[t].log =
                    <<[op |-> "fetch", idx |-> task'[t].i,
                       tok |-> TokNum(task'[t].tokens[task'[t].i].accessToken),
                       st |-> "pending"]>>
               /\ task'[t].tokens = Load(file)
               /\ task'[t].tokens[task'[t].i].userId = task[t].userId
               /\ file' = file /\ submitted' = submitted
         /\ (task[t].pc = "fetch" /\ Len(task[t].log) = 1)
            => /\ task'[t].pc = "done" /\ task'[t].status \in {"200", "500"}
               /\ Len(task'[t].log) = 1
               /\ file' = file /\ submitted' = submitted]_vars

\* C6 witness: /likes has answered 200 after a single call, the liked-posts
\* request.
LikesFreshWitness ==
  \E t \in Tasks :
    /\ task[t].kind = "likes" /\ task[t].pc = "done" /\ task[t].status = "200"
    /\ Len(task[t].log) = 1 /\ task[t].log[1].op = "fetch"

\* C7: the poller and /likes decide to refresh exactly when
\* now >= createdAt + expiresIn*1000 for the record they look at.
ExpiryDecision ==
  [][\A t \in Tasks :
       (/\ task'[t].kind \in {"likes", "poller"}
        /\ task'[t].i # task[t].i
        /\ task'[t].pc \in {"refresh", "fetch"})
       => LET user == task'[t].tokens[task'[t].i] IN
          (task'[t].pc = "refresh") <=> (now >= user.createdAt + user.expiresIn * 1000)]_vars

\* C7 witness: a refresh was decided at the boundary now = createdAt + expiresIn*1000.
ExpiryBoundaryWitness ==
  \E t \in Tasks :
    /\ task[t].kind \in {"likes", "poller"} /\ task[t].pc = "refresh"
    /\ now = task[t].tokens[task[t].i].createdAt
               + task[t].tokens[task[t].i].expiresIn * 1000

\* C8 as stated: when the poller issues the liked-posts request after a
\* successful refresh, the persisted document holds the refreshed record.
PollerPersistsBeforeFetch ==
  [][\A t \in Tasks :
       (/\ task[t].kind = "poller" /\ task[t].pc = "save"
        /\ task'[t].pc = "fetch")
       => \E k \in 1..Len(Load(file')) :
            /\ Load(file')[k].userId = task[t].tokens[task[t].i].userId
            /\ Load(file')[k].refreshToken = task[t].tokens[task[t].i].refreshToken
            /\ Load(file')[k].accessToken = task'[t].accessToken]_vars

\* C9 as stated: a load that finds no document returns the empty sequence and
\* leaves the empty document in place.
LoadCreatesEmptyDocument ==
  [][\A t \in Tasks :
       (task[t].pc = "mkfile" /\ task'[t] # task[t])
       => /\ file' = TextFile(EmptyArrayText)
          /\ task'[t].status \notin {"500", "unhandled"}]_vars

RefreshNeverThrows ==
  [][\A t \in Tasks :
       (task[t].pc = "refresh" /\ task'[t] # task[t]) =>
         LET c == task'[t].log[Len(task[t].log)] IN
         /\ task'[t].status \notin {"500", "unhandled"}
         /\ c.op = "refresh" /\ c.st \in {"ok", "fail"}
         /\ c.st = "fail" =>
              /\ issued' = issued
              /\ task'[t].tokens = task[t].tokens
              /\ task[t].kind = "likes" => task'[t].status = "401"
              /\ task[t].kind = "poller" => task'[t].status \in {"", "returned"}
         /\ c.st = "ok" =>
              /\ issued' = issued + 1
              /\ task'[t].pc = "save"
              /\ task'[t].accessToken = AccessTokenOf(issued')
              /\ task'[t].tokens[task[t].i].accessToken = AccessTokenOf(issued')
              /\ task'[t].tokens[task[t].i].refreshToken = RefreshTokenOf(issued')
              /\ task'[t].tokens[task[t].i].expiresIn \in ExpiresInValues]_vars

\* C11 witness: one poller cycle has seen a refresh fail and a refresh succeed.
RefreshBothOutcomesWitness ==
  \E t \in Tasks :
    /\ task[t].kind = "poller"
    /\ \E k \in 1..Len(task[t].log) :
         task[t].log[k].op = "refresh" /\ task[t].log[k].st = "fail"
    /\ \E k \in 1..Len(task[t].log) :
         task[t].log[k].op = "refresh" /\ task[t].log[k].st = "ok"

\* C12: /auth/callback fails with an error response, creates no record and
\* leaves the document as it is when the code or the session's verifier is
\* absent or the code exchange fails; with the code or the verifier absent no
\* exchange call is issued.
CallbackFailsWithoutWriting ==
  [][\A t \in Tasks :
       /\ (/\ task[t].kind = "idle"
           /\ task'[t].kind = "callback"
           /\ (task'[t].code = Undefined \/ task'[t].codeVerifier = Undefined)) =>
            /\ task'[t].pc = "done"
            /\ task'[t].status = "500"
            /\ task'[t].log = <<>>
            /\ file' = file
            /\ issued' = issued
       /\ (/\ task[t].pc = "exchange"
           /\ task'[t] # task[t]
           /\ task'[t].log[1].st = "fail") =>
            /\ task'[t].pc = "done"
            /\ task'[t].status = "500"
            /\ Len(task'[t].log) = 1
            /\ file' = file]_vars

\* C12 witness: a callback with a code but no verifier in its session has been
\* answered 500 without any call.
CallbackFailureWitness ==
  \E t \in Tasks :
    /\ task[t].kind = "callback"
    /\ task[t].pc = "done"
    /\ task[t].status = "500"
    /\ task[t].code = "code"
    /\ task[t].codeVerifier = Undefined
    /\ task[t].log = <<>>

\* C13: the codeVerifier of a session is ephemeral: when a callback of the
\* session completes, the session no longer holds a codeVerifier (so a second
\* callback without a new login fails for lack of one).
VerifierGoneAfterCallback ==
  [][\A t \in Tasks :
       (/\ task[t].kind = "callback"
        /\ task[t].pc # "done"
        /\ task'[t].pc = "done") =>
         session'[task[t].sess] = Undefined]_vars

\* C14: a callback for a userId that already has a record in the persisted
\* document leaves the document unchanged: no step the handler takes once it
\* knows the userId (load, save) replaces or rewrites anything.
ReloginLeavesDocument ==
  [][\A t \in Tasks :
       (/\ task[t].kind = "callback"
        /\ task[t].pc \in {"read", "mkfile", "save"}
        /\ task'[t] # task[t]
        /\ HasRecord(file, task[t].userId)) =>
         file' = file]_vars

\* The users array of line 159 for a sequence of records.
PublicUsers(tokens) ==
  [n \in 1..Len(tokens) |->
     [userId |-> tokens[n].userId, username |-> tokens[n].username,
      name |-> tokens[n].name]]

\* C15 as stated: /users answers 200 with one {userId, username, name} entry per
\* persisted record, in stored order, and no step of it changes the persisted
\* records.
UsersListsPersisted ==
  [][\A t \in Tasks :
       (task[t].kind = "users" /\ task'[t] # task[t]) =>
         /\ Load(file') = Load(file)
         /\ task'[t].pc = "done" =>
              /\ task'[t].status = "200"
              /\ task'[t].body = PublicUsers(Load(file))]_vars

\* C15: /users answers with exactly one {userId, username, name} entry per
\* record loadTokens returned, in that order and with no other field; what
\* loadTokens returned is the persisted sequence or the empty one; /users
\* answers 200, or 500 when the missing document could not be created; it never
\* calls saveTokens, and the only write it makes is the '[]' of a missing
\* document.
UsersListsLoadedRecords ==
  [][\A t \in Tasks :
       (task[t].kind = "users" /\ task'[t] # task[t]) =>
         /\ \A k \in 1..Len(task'[t].log) : task'[t].log[k].op = "mkfile"
         /\ file' # file =>
              /\ task[t].pc = "mkfile"
              /\ file' = TextFile(EmptyArrayText)
         /\ task'[t].pc = "done" =>
              /\ task'[t].status \in {"200", "500"}
              /\ task'[t].status = "500" =>
                   task[t].pc = "mkfile" /\ file' = file
              /\ task'[t].status = "200" =>
                   /\ task'[t].tokens \in {Load(file), <<>>}
                   /\ task'[t].body = PublicUsers(task'[t].tokens)
                   /\ \A n \in 1..Len(task'[t].body) :
                        DOMAIN task'[t].body[n] = {"userId", "username", "name"}]_vars

\* C15 witness: /users has answered with the two persisted records, in order.
UsersWitness ==
  \E t \in Tasks :
    /\ task[t].kind = "users"
    /\ task[t].pc = "done"
    /\ task[t].status = "200"
    /\ Len(task[t].body) = 2
    /\ task[t].tokens = Load(file)
    /\ task[t].body[1].userId = "u1"
    /\ task[t].body[2].userId = "u2"

\* C16: in /likes and in the poller the sequence loaded changes only by a
\* successful refresh, which changes only the accessToken, refreshToken,
\* expiresIn and createdAt of the record at the refreshed index (userId,
\* username, name, the positions and every other record stay), and the document
\* written back is that sequence.
RefreshChangesOnlyItsRecord ==
  [][\A t \in Tasks :
       (/\ task[t].kind \in {"likes", "poller"}
        /\ task[t].pc \in {"refresh", "save", "fetch"}
        /\ task'[t] # task[t]) =>
         LET old == task[t].tokens
             new == task'[t].tokens
             i == task[t].i
         IN
         /\ Len(new) = Len(old)
         /\ \A j \in 1..Len(old) :
              /\ new[j].userId = old[j].userId
              /\ new[j].username = old[j].username
              /\ new[j].name = old[j].name
              /\ new[j] # old[j] =>
                   /\ j = i
                   /\ task[t].pc = "refresh"
                   /\ task'[t].log[Len(task[t].log)].st = "ok"
         /\ file' # file =>
              /\ task[t].pc = "save"
              /\ Load(file') = old]_vars

\* C16 witness: the second record of a two-record snapshot has been refreshed
\* and the sequence written back.
RefreshFrameWitness ==
  \E t \in Tasks :
    /\ task[t].kind \in {"likes", "poller"}
    /\ Len(task[t].tokens) = 2
    /\ \E k \in 1..Len(task[t].log) :
         /\ task[t].log[k].op = "save"
         /\ task[t].log[k].idx = 2
         /\ task[t].log[k].st = "ok"
    /\ Load(file) = task[t].tokens
    /\ task[t].tokens[2].refreshToken # FirstRecord("u2", 2).refreshToken

\* C17 as stated: the persisted record of a user never goes back to a refresh
\* token that was already submitted to the refresh exchange and replaced by a
\* later one.
NoLostUpdate ==
  [][\A k \in 1..Len(Load(file)) : \A j \in 1..Len(Load(file')) :
       Load(file')[j].userId = Load(file)[k].userId =>
         ~ /\ TokNum(Load(file')[j].refreshToken) < TokNum(Load(file)[k].refreshToken)
           /\ TokNum(Load(file')[j].refreshToken) \in submitted]_vars

\* C17: an operation never writes back an older pair than the one it loaded:
\* within /likes and a poller cycle the refresh token of a record of the
\* snapshot only moves forward, a successful refresh puts a pair newer than
\* every token submitted so far, and what is saved is that snapshot.
SnapshotTokensMoveForward ==
  [][\A t \in Tasks :
       (/\ task[t].kind \in {"likes", "poller"}
        /\ task[t].pc \in {"refresh", "save", "fetch"}
        /\ task'[t] # task[t]) =>
         /\ \A j \in 1..Len(task[t].tokens) :
              TokNum(task'[t].tokens[j].refreshToken)
                >= TokNum(task[t].tokens[j].refreshToken)
         /\ (task[t].pc = "refresh" /\ task'[t].log[Len(task[t].log)].st = "ok") =>
              /\ \A n \in submitted' :
                   TokNum(task'[t].tokens[task[t].i].refreshToken) > n
              /\ TokNum(task'[t].tokens[task[t].i].accessToken)
                   = TokNum(task'[t].tokens[task[t].i].refreshToken)
         /\ file' # file => Load(file') = task[t].tokens]_vars

\* C17 witness: one operation has persisted a refreshed pair of a user while
\* another operation still holds the older pair of that user in its snapshot.
StaleSnapshotWitness ==
  \E t \in Tasks : \E t2 \in Tasks \ {t} :
    \E k \in 1..Len(task[t].log) :
      /\ task[t].log[k].op = "save"
      /\ task[t].log[k].st = "ok"
      /\ task[t].kind \in {"likes", "poller"}
      /\ LET i == task[t].log[k].idx IN
         /\ i \in 1..Len(Load(file))
         /\ Load(file)[i] = task[t].tokens[i]
         /\ \E j \in 1..Len(task[t2].tokens) :
              /\ task[t2].tokens[j].userId = task[t].tokens[i].userId
              /\ TokNum(task[t2].tokens[j].refreshToken)
                   < TokNum(task[t].tokens[i].refreshToken)

\* C18 as stated: a refresh token is submitted to the refresh exchange at most
\* once, whichever operations submit it.
SubmittedAtMostOnce ==
  [][\A t \in Tasks :
       (task[t].pc = "refresh" /\ task'[t] # task[t]) =>
         LastCall(task[t]).tok \notin submitted]_vars

\* C18: within one operation (a /likes request, a poller cycle) no refresh
\* token is submitted twice: its refresh calls are for different records and
\* carry different refresh tokens.
SubmittedOncePerOperation ==
  \A t \in Tasks :
    \A k1 \in 1..Len(task[t].log) : \A k2 \in (k1 + 1)..Len(task[t].log) :
      (task[t].log[k1].op = "refresh" /\ task[t].log[k2].op = "refresh") =>
        /\ task[t].log[k1].idx # task[t].log[k2].idx
        /\ task[t].log[k1].tok # task[t].log[k2].tok

\* C18 witness: a poller cycle whose first refresh failed has gone on to the
\* refresh of its second record.
TwoRefreshesWitness ==
  \E t \in Tasks :
    /\ task[t].kind = "poller"
    /\ \E k1 \in 1..Len(task[t].log) : \E k2 \in (k1 + 1)..Len(task[t].log) :
         /\ task[t].log[k1].op = "refresh"
         /\ task[t].log[k1].st = "fail"
         /\ task[t].log[k2].op = "refresh"

\* The calls of a poller cycle are in the order of its snapshot, no record gets
\* a second refresh, save or liked-posts request, a cycle that has returned has
\* attempted every record, and a cycle whose load returned no record has made
\* no platform call and no save.
PollerInOrderOnce(l) ==
  /\ \A k \in 1..Len(l.log) : l.log[k].idx \in 0..Len(l.tokens)
  /\ \A k1 \in 1..Len(l.log) : \A k2 \in (k1 + 1)..Len(l.log) :
       /\ l.log[k1].idx <= l.log[k2].idx
       /\ l.log[k1].idx = l.log[k2].idx => l.log[k1].op # l.log[k2].op
  /\ (l.pc = "done" /\ l.status = "returned") =>
       \A n \in 1..Len(l.tokens) : Attempted(l, n)
  /\ Len(l.tokens) = 0 => \A k \in 1..Len(l.log) : l.log[k].op = "mkfile"

\* C19: every poller cycle terminates when every call it awaits is answered;
\* it goes through the records of the snapshot it loaded in sequence order,
\* attempts each once, and with an empty store calls nothing and saves nothing.
PollerCycleTerminates ==
  /\ [](\A t \in Tasks : task[t].kind = "poller" => PollerInOrderOnce(task[t]))
  /\ \A t \in Tasks : (task[t].kind = "poller") ~> (task[t].pc = "done")

\* C19 witness: a cycle over two records has returned after a failed and a
\* successful liked-posts request.
PollerCycleWitness ==
  \E t \in Tasks :
    /\ task[t].kind = "poller"
    /\ task[t].pc = "done"
    /\ task[t].status = "returned"
    /\ Len(task[t].tokens) = 2
    /\ Made(task[t], {"fetch"}, 1)
    /\ Made(task[t], {"fetch"}, 2)
    /\ \E k \in 1..Len(task[t].log) : task[t].log[k].st = "fail"

====
